---- MODULE Spec2Model ----
(***************************************************************************)
(* The loudness batch tool (src/src/main.rs): main loads an optional JSON   *)
(* cache, resolves the target files, measures them on a rayon pool, saves   *)
(* the cache every Stride-th index and once more at the end.                *)
(***************************************************************************)
EXTENDS Integers, Sequences, FiniteSets, TLC

\* Largest number of directory entries of the input path.
NumFiles == 3

\* Largest magnitude of a loudness / energy number of the round-trip inputs,
\* in steps of 1 / Unit.
MaxNum == 12

\* `if i % 10 == 0` : the periodic save stride.
Stride == 10

\* How many indices of the larger batch are multiples of the stride.
NumSavers == 2

\* Largest number of packets of an audio file of the decode runs.
MaxPackets == 3

\* The files of the larger batch: indices 0 .. (NumSavers - 1) * Stride.
NumTargets == (NumSavers - 1) * Stride + 1

None == [some |-> FALSE]
Some(v) == [some |-> TRUE, v |-> v]

(***************************************************************************)
(* struct Measurement { loudness, energy }                                  *)
(***************************************************************************)
Measurement(l, e) == [loudness |-> l, energy |-> e]

\* The empty HashMap<String, Measurement>.
EmptyMap == [k \in {} |-> Measurement(0, 0)]

\* An insert that leaves the new entry alone in the map.
HashInsertAlone(d, k, m) == [x \in {k} |-> m]

\* HashMap::insert: the new value replaces an old one under the same key.
HashInsert(d, k, m) == [x \in DOMAIN d \cup {k} |-> IF x = k THEN m ELSE d[x]]

(***************************************************************************)
(* Paths.  A file name is its stem and its extension.                       *)
(***************************************************************************)
Path(stem, ext) == [stem |-> stem, ext |-> ext]
file_stem(p) == p.stem
extension(p) == p.ext

Stem(j) == "f" \o ToString(j)
Stems == {Stem(j) : j \in 1..NumFiles}
\* A key of the cache file that no target file has.
ForeignKey == "zz"
\* The stem of a file name that is not valid UTF-8.
NonUtf8Stem(j) == "xff" \o ToString(j)
NonUtf8Stems == {NonUtf8Stem(j) : j \in 1..NumFiles}
\* OsStr::to_str: None when the name is not valid UTF-8.
to_str(s) == IF s \in NonUtf8Stems THEN None ELSE Some(s)

(***************************************************************************)
(* The JSON text of the cache file, as a sequence of tokens; a token is a   *)
(* sequence of strings: <<"{">>, <<"}">>, <<"[">>, <<"]">>, <<":">>,         *)
(* <<",">>, a string <<"s", text>>, a number <<"n", sign or digit, ...>>.   *)
(* The writer and the parser are the merde crate's, whose code is not in    *)
(* the repository: to_string, from_str and what they are made of follow the *)
(* specification's persisted state layout (a textual document whose root    *)
(* maps each key to a record of two floating-point fields, and that         *)
(* round-trips), as standard JSON.                                          *)
(***************************************************************************)
LBrace == <<"{">>
RBrace == <<"}">>
Colon == <<":">>
Comma == <<",">>
Str(s) == <<"s", s>>
InvalidUtf8 == <<"xff">>

DigitChars == <<"0", "1", "2", "3", "4", "5", "6", "7", "8", "9">>

\* The f64 values of the model are the finite values k / Unit: the integer k
\* stands for the f64 k / Unit (12 for 3.0, -9 for -2.25).
Unit == 4

RECURSIVE Digits(_)
Digits(n) == IF n < 10 THEN <<DigitChars[n + 1]>>
             ELSE Append(Digits(n \div 10), DigitChars[(n % 10) + 1])

\* The decimal digits of the fraction r / Unit, 0 < r < Unit.
RECURSIVE FracDigits(_)
FracDigits(r) ==
  IF r = 0 THEN <<>>
  ELSE <<DigitChars[((10 * r) \div Unit) + 1]>> \o FracDigits((10 * r) % Unit)

Abs(x) == IF x < 0 THEN -x ELSE x

\* A number as JSON writes it: an optional minus sign, the decimal digits of
\* the whole part and, for a value with a fraction, a point and its digits.
Num(x) ==
  <<"n">> \o (IF x < 0 THEN <<"-">> ELSE <<>>) \o Digits(Abs(x) \div Unit)
          \o (IF Abs(x) % Unit = 0 THEN <<>> ELSE <<".">> \o FracDigits(Abs(x) % Unit))

DigitValue(c) == CHOOSE v \in 0..9 : DigitChars[v + 1] = c
IsDigit(c) == \E v \in 0..9 : DigitChars[v + 1] = c
AllDigits(cs) == cs /= <<>> /\ \A j \in 1..Len(cs) : IsDigit(cs[j])

RECURSIVE DigitsValue(_)
DigitsValue(cs) == IF cs = <<>> THEN 0
                   ELSE 10 * DigitsValue(SubSeq(cs, 1, Len(cs) - 1)) + DigitValue(cs[Len(cs)])

\* The f64 nearest to the fraction the digits fs write, in steps of 1 / Unit.
FracValue(fs) == (2 * Unit * DigitsValue(fs) + 10 ^ Len(fs)) \div (2 * 10 ^ Len(fs))

\* The value of a number token, None when the token is no number: an
\* optional minus sign, digits, and optionally a point and more digits.
ParseNum(tok) ==
  IF Len(tok) < 2 \/ tok[1] /= "n" THEN None
  ELSE LET neg == tok[2] = "-"
           body == SubSeq(tok, IF neg THEN 3 ELSE 2, Len(tok))
           dots == {j \in 1..Len(body) : body[j] = "."}
           dot == IF dots = {} THEN Len(body) + 1 ELSE CHOOSE j \in dots : \A i \in dots : j <= i
           ds == SubSeq(body, 1, dot - 1)
           fs == SubSeq(body, dot + 1, Len(body))
       IN IF ~AllDigits(ds) \/ (dots /= {} /\ ~AllDigits(fs)) THEN None
          ELSE LET v == Unit * DigitsValue(ds) + (IF dots = {} THEN 0 ELSE FracValue(fs))
               IN Some(IF neg THEN -v ELSE v)

\* impl JsonSerialize for Measurement { loudness, energy }
SerializeMeasurement(m) ==
  <<LBrace, Str("loudness"), Colon, Num(m.loudness), Comma,
    Str("energy"), Colon, Num(m.energy), RBrace>>

\* Every sequence that holds each member of S once.
RECURSIVE Orderings(_)
Orderings(S) ==
  IF S = {} THEN {<<>>}
  ELSE UNION {{<<x>> \o p : p \in Orderings(S \ {x})} : x \in S}

\* HashMap::iter: the keys of d, each once, in an order of the map's own (std's
\* HashMap seeds its hasher per process: any order of the keys may come out).
\* Given the order a map was seen to iterate in, it iterates in that order.
IterKeys(d, seen) == IF seen.some THEN {seen.v} ELSE Orderings(DOMAIN d)

RECURSIVE SerializeEntries(_, _)
SerializeEntries(d, ks) ==
  IF ks = <<>> THEN <<>>
  ELSE <<Str(ks[1]), Colon>> \o SerializeMeasurement(d[ks[1]])
       \o (IF Len(ks) > 1 THEN <<Comma>> ELSE <<>>)
       \o SerializeEntries(d, Tail(ks))

\* merde::json::to_string(d), the map iterating its keys in the order ks.
to_string(d, ks) == <<LBrace>> \o SerializeEntries(d, ks) \o <<RBrace>>

\* The text of a cache file an earlier run wrote for the map d.
WrittenText(d) == to_string(d, CHOOSE ks \in IterKeys(d, None) : TRUE)

\* The keys of the entries of a file text, in the order the text has them: the
\* strings that open a nested object.
RECURSIVE TextOrderFrom(_, _)
TextOrderFrom(t, j) ==
  IF j + 2 > Len(t) THEN <<>>
  ELSE (IF t[j][1] = "s" /\ t[j + 1] = Colon /\ t[j + 2] = LBrace
        THEN <<t[j][2]>> ELSE <<>>) \o TextOrderFrom(t, j + 1)

TextOrder(t) == TextOrderFrom(t, 1)

(***************************************************************************)
(* merde::json::from_str into HashMap<String, Measurement>.  A parse step   *)
(* answers [ok, v, next]: the value and the position after it.              *)
(***************************************************************************)
Fail == [ok |-> FALSE]
Tok(t, p) == IF p <= Len(t) THEN t[p] ELSE <<"eof">>

\* The fields of one Measurement object from position p (after its "{").
RECURSIVE ParseFields(_, _, _)
ParseFields(t, p, acc) ==
  LET k == Tok(t, p)
      v == ParseNum(Tok(t, p + 2))
  IN IF k[1] /= "s" \/ Tok(t, p + 1) /= Colon \/ ~v.some THEN Fail
     ELSE LET acc2 == [f \in DOMAIN acc \cup {k[2]} |-> IF f = k[2] THEN v.v ELSE acc[f]]
          IN IF Tok(t, p + 3) = Comma THEN ParseFields(t, p + 4, acc2)
             ELSE IF Tok(t, p + 3) = RBrace
                  THEN [ok |-> TRUE, v |-> acc2, next |-> p + 4]
                  ELSE Fail

\* impl Deserialize for Measurement { loudness, energy }: both fields are needed.
ParseMeasurement(t, p) ==
  IF Tok(t, p) /= LBrace THEN Fail
  ELSE LET r == ParseFields(t, p + 1, [f \in {} |-> 0])
       IN IF ~r.ok \/ ~({"loudness", "energy"} \subseteq DOMAIN r.v) THEN Fail
          ELSE [ok |-> TRUE, v |-> Measurement(r.v["loudness"], r.v["energy"]),
                next |-> r.next]

\* The entries of the root object from position p (after its "{" or a ",").
RECURSIVE ParseEntries(_, _, _)
ParseEntries(t, p, acc) ==
  LET k == Tok(t, p)
  IN IF k[1] /= "s" \/ Tok(t, p + 1) /= Colon THEN Fail
     ELSE LET m == ParseMeasurement(t, p + 2)
          IN IF ~m.ok THEN Fail
             ELSE LET acc2 == HashInsert(acc, k[2], m.v)
                  IN IF Tok(t, m.next) = Comma THEN ParseEntries(t, m.next + 1, acc2)
                     ELSE IF Tok(t, m.next) = RBrace /\ m.next = Len(t)
                          THEN [ok |-> TRUE, v |-> acc2]
                          ELSE Fail

from_str(t) ==
  IF Tok(t, 1) /= LBrace THEN Fail
  ELSE IF t = <<LBrace, RBrace>> THEN [ok |-> TRUE, v |-> EmptyMap]
  ELSE ParseEntries(t, 2, EmptyMap)

(***************************************************************************)
(* What measure reads of one audio file: whether it opens, probes, has a    *)
(* default track, a decoder, a channel count and a sample rate, and the     *)
(* packets next_packet yields before its first Err.  A packet is of the     *)
(* selected track or not, decodes to frames (with the energy of its block)  *)
(* or to an error.                                                          *)
(***************************************************************************)
Packet(own, dec, frames, e) == [own |-> own, dec |-> dec, frames |-> frames, e |-> e]
Audio(open, probe, track, decoder, channels, rate, packets) ==
  [open |-> open, probe |-> probe, track |-> track, decoder |-> decoder,
   channels |-> channels, rate |-> rate, packets |-> packets]

\* EbuR128 after add_frames_f32 of the blocks in acc: a block passes the gate
\* when its energy is positive.
RECURSIVE GatedSum(_)
GatedSum(acc) == IF acc = <<>> THEN 0 ELSE acc[1] + GatedSum(Tail(acc))
GatedCount(acc) == Cardinality({j \in 1..Len(acc) : acc[j] > 0})

\* ebur128.loudness_global()
loudness_global(acc) ==
  IF GatedCount(acc) = 0 THEN "-inf" ELSE -(GatedSum(acc) \div GatedCount(acc))

\* ebur128.gating_block_count_and_energy()
gating_block_count_and_energy(acc) ==
  IF GatedCount(acc) = 0 THEN None ELSE Some(<<GatedCount(acc), GatedSum(acc)>>)

\* A decode loop that a malformed packet ends.
RECURSIVE decode_loop_strict(_, _, _, _)
decode_loop_strict(pk, j, acc, log) ==
  IF j > Len(pk) THEN [acc |-> acc, log |-> log]
  ELSE LET p == pk[j]
       IN IF ~p.own THEN decode_loop_strict(pk, j + 1, acc, log)
          ELSE IF p.dec = "Ok"
               THEN IF p.frames > 0
                    THEN decode_loop_strict(pk, j + 1, Append(acc, p.e), log)
                    ELSE decode_loop_strict(pk, j + 1, acc, Append(log, "Empty packet"))
          ELSE IF p.dec = "DecodeError"
               THEN [acc |-> acc, log |-> Append(log, "decode error")]
          ELSE IF p.dec = "IoError"
               THEN [acc |-> acc, log |-> Append(log, "io error")]
          ELSE IF p.dec = "UnexpectedEof"
               THEN [acc |-> acc, log |-> Append(log, "end of stream")]
          ELSE [acc |-> acc, log |-> Append(log, "other error")]

\* The decode loop: [acc, log] are the blocks fed to the accumulator and the
\* eprintln! lines, from packet j on.
RECURSIVE decode_loop(_, _, _, _)
decode_loop(pk, j, acc, log) ==
  IF j > Len(pk) THEN [acc |-> acc, log |-> log]
  ELSE LET p == pk[j]
       IN IF ~p.own THEN decode_loop(pk, j + 1, acc, log)
          ELSE IF p.dec = "Ok"
               THEN IF p.frames > 0
                    THEN decode_loop(pk, j + 1, Append(acc, p.e), log)
                    ELSE decode_loop(pk, j + 1, acc, Append(log, "Empty packet"))
          ELSE IF p.dec = "DecodeError"
               THEN decode_loop(pk, j + 1, acc, Append(log, "decode error"))
          ELSE IF p.dec = "IoError"
               THEN [acc |-> acc, log |-> Append(log, "io error")]
          ELSE IF p.dec = "UnexpectedEof"
               THEN [acc |-> acc, log |-> Append(log, "end of stream")]
          ELSE [acc |-> acc, log |-> Append(log, "other error")]

Ok(m, log) == [r |-> "Ok", m |-> m, log |-> log]
Err(log) == [r |-> "Err", log |-> log]
Panic(log) == [r |-> "Panic", log |-> log]

\* A measure that fails when an error ended its decode loop.
measure_fails_on_break(a) ==
  IF ~a.open THEN Err(<<"failed to open file">>)
  ELSE IF ~a.probe THEN Err(<<"failed to get probe">>)
  ELSE IF ~a.track THEN Err(<<"has no tracks">>)
  ELSE IF ~a.decoder THEN Err(<<"failed to create decoder">>)
  ELSE IF ~a.channels THEN Panic(<<"panic: unwrap on None">>)
  ELSE IF ~a.rate THEN Panic(<<"panic: has no sample rate">>)
  ELSE LET d == decode_loop(a.packets, 1, <<>>, <<>>)
           global_loudness == loudness_global(d.acc)
           energy == gating_block_count_and_energy(d.acc)
           broke == d.log /= <<>> /\ d.log[Len(d.log)] \in {"io error", "end of stream", "other error"}
       IN IF ~energy.some \/ broke THEN Err(d.log)
          ELSE Ok(Measurement(global_loudness, energy.v[2]), d.log)

\* fn measure(path) -> Result<Measurement, ()>
measure(a) ==
  IF ~a.open THEN Err(<<"failed to open file">>)
  ELSE IF ~a.probe THEN Err(<<"failed to get probe">>)
  ELSE IF ~a.track THEN Err(<<"has no tracks">>)
  ELSE IF ~a.decoder THEN Err(<<"failed to create decoder">>)
  ELSE IF ~a.channels THEN Panic(<<"panic: unwrap on None">>)
  ELSE IF ~a.rate THEN Panic(<<"panic: has no sample rate">>)
  ELSE LET d == decode_loop(a.packets, 1, <<>>, <<>>)
           global_loudness == loudness_global(d.acc)
           energy == gating_block_count_and_energy(d.acc)
       IN IF ~energy.some THEN Err(d.log)
          ELSE Ok(Measurement(global_loudness, energy.v[2]), d.log)

\* The audio files the batch is run on.
Good == Audio(TRUE, TRUE, TRUE, TRUE, TRUE, TRUE, <<Packet(TRUE, "Ok", 2, 4)>>)
Silent == Audio(TRUE, TRUE, TRUE, TRUE, TRUE, TRUE, <<Packet(TRUE, "Ok", 2, 0)>>)
NoOpen == Audio(FALSE, TRUE, TRUE, TRUE, TRUE, TRUE, <<>>)
NoChannels == Audio(TRUE, TRUE, TRUE, TRUE, FALSE, TRUE, <<>>)
BatchFiles == {Good, Silent, NoOpen, NoChannels}
Unread == [open |-> "unread"]

(***************************************************************************)
(* The state of one run of main.                                            *)
(***************************************************************************)
VARIABLES
  input,         \* args.nth(1): what the input path is, and a directory's entries
  maybe_outfile, \* args.next(): whether a cache file path was given
  disk,          \* the cache file: whether it exists, and its text
  content,       \* the audio of each entry of the input, Unread until opened
  pc,            \* where main is
  data,          \* Option<RwLock<HashMap<String, Measurement>>>
  files,         \* the target files; par_iter().enumerate() indexes them from 0
  wpc,           \* where the closure of each file is
  measurement,   \* the Ok(measurement) each closure holds
  readers,       \* who holds a read guard of the RwLock
  out,           \* the lines each closure printed (println! and eprintln!)
  measured,      \* the closures that called measure
  inserted,      \* the inserts applied: key, closure, and whether the key was new
  persisted,     \* the map of the last completed save, or the map loaded
  disk0,         \* the cache file when the run started
  loaded,        \* the map main loaded from it, empty when it loaded none
  second,        \* whether this is a second run over the same input
  first,         \* in a second run: how the first run ended, and its cache
  handles,       \* the File of each save whose write_all is under way: text and offset
  savers,        \* the closures that called save
  order          \* the order the cache iterates in, None until a save has iterated it

vars == <<input, maybe_outfile, disk, content, pc, data, files, wpc, measurement,
          readers, out, measured, inserted, persisted, disk0, loaded, second, first, handles, savers,
          order>>

Absent == [exists |-> FALSE, text |-> <<>>]
FileOf(text) == [exists |-> TRUE, text |-> text]

\* The entries of a directory: entry j is an mp3 file named Stem(j), a file of
\* another extension, a subdirectory named like an mp3 file, or an mp3 file
\* whose name is not valid UTF-8.
Entry(j, kind) ==
  [path |-> Path(IF kind = "nonutf8" THEN NonUtf8Stem(j) ELSE Stem(j),
                 IF kind = "txt" THEN "txt" ELSE "mp3"),
   is_file |-> kind /= "subdir"]
EntryKinds == {"mp3", "txt", "subdir", "nonutf8"}
Listings ==
  UNION {{[j \in 1..n |-> Entry(j, ks[j])] : ks \in [1..n -> EntryKinds]} : n \in 0..NumFiles}
\* The input path.  std::env::args yields Strings (lines 27-30), so the path
\* main works on is valid UTF-8: only the entries read_dir finds in a
\* directory can have a name that is not.
Inputs ==
  {[kind |-> "missing", entries |-> <<>>]}
    \cup {[kind |-> "file", entries |-> <<Entry(1, k)>>] : k \in {"mp3", "txt"}}
    \cup {[kind |-> "dir", entries |-> l] : l \in Listings}

\* The cache files a run may find: maps of old results of some of the files, one
\* with a key of another batch too, and texts that are no map.
OldMeasurement == Measurement(-9, 9)
OldMaps ==
  {[k \in ks |-> OldMeasurement] : ks \in {{ForeignKey, Stem(2)}} \cup SUBSET Stems}
Malformed ==
  { <<>>,                                                   \* an empty file
    <<<<"[">>, <<"]">>>>,                                   \* not an object
    <<LBrace, Str(Stem(1)), Colon, Num(3), RBrace>>,        \* not a Measurement
    <<LBrace, Str(Stem(1)), Colon, LBrace, Str("loudness"), Colon, Num(3), RBrace, RBrace>>,
    <<LBrace, Str(Stem(1)), Colon>>,                        \* cut short
    <<InvalidUtf8>> }                                       \* not UTF-8
Disks ==
  {Absent} \cup {FileOf(t) : t \in Malformed}
           \cup {FileOf(WrittenText(m)) : m \in OldMaps}

NoFirst == [ended |-> "none", data |-> None]
\* No save is in the middle of its write_all.
NoHandles == [who \in {} |-> 0]

Init ==
  /\ input \in Inputs
  /\ maybe_outfile \in BOOLEAN
  /\ disk \in (IF maybe_outfile THEN Disks ELSE {Absent})
  /\ content = [k \in Stems |-> Unread]
  /\ pc = "load"
  /\ data = None
  /\ files = <<>>
  /\ wpc = <<>>
  /\ measurement = <<>>
  /\ readers = {}
  /\ out = <<>>
  /\ measured = {}
  /\ inserted = {}
  /\ persisted = EmptyMap
  /\ disk0 = disk
  /\ loaded = EmptyMap
  /\ second = FALSE
  /\ first = NoFirst
  /\ handles = NoHandles
  /\ savers = {}
  /\ order = None

Workers == 1..Len(files)
\* enumerate(): the index i of the file at position w.
Index(w) == w - 1
\* Line 91, f.file_stem().unwrap().to_str(): the name of the file at position
\* w, None when it is not valid UTF-8.
stem_str(w) == to_str(file_stem(files[w]))
\* What stands for the name of a closure that has none.
NoName == ""
\* Line 91: the key of the file at position w, once the closure has unwrapped it.
name(w) == IF stem_str(w).some THEN stem_str(w).v ELSE NoName

(***************************************************************************)
(* main, lines 33-57: load the cache.                                       *)
(***************************************************************************)
\* A load that starts from an empty cache when the file does not parse.
LoadIgnoringMalformed ==
  /\ pc = "load"
  /\ pc' = "resolve"
  /\ data' = IF ~maybe_outfile THEN None
             ELSE IF disk.exists /\ from_str(disk.text).ok THEN Some(from_str(disk.text).v)
             ELSE Some(EmptyMap)
  /\ persisted' = (IF data'.some THEN data'.v ELSE EmptyMap)
  /\ loaded' = persisted'
  /\ UNCHANGED <<input, maybe_outfile, disk, content, files, wpc, measurement,
                 readers, out, measured, inserted, disk0, second, first, handles, savers, order>>

Load ==
  /\ pc = "load"
  /\ IF ~maybe_outfile
     THEN /\ data' = None
          /\ pc' = "resolve"
          /\ persisted' = EmptyMap
          /\ loaded' = EmptyMap
     ELSE IF ~disk.exists
     THEN /\ data' = Some(EmptyMap)
          /\ pc' = "resolve"
          /\ persisted' = EmptyMap
          /\ loaded' = EmptyMap
     ELSE IF \E j \in 1..Len(disk.text) : disk.text[j] = InvalidUtf8
     THEN /\ pc' = "panicked"                  \* expect("failed to read outfile")
          /\ UNCHANGED <<data, persisted, loaded>>
     ELSE LET deserialized == from_str(disk.text)
          IN IF deserialized.ok
             THEN /\ data' = Some(deserialized.v)
                  /\ pc' = "resolve"
                  /\ persisted' = deserialized.v
                  /\ loaded' = deserialized.v
             ELSE /\ pc' = "malformed"         \* eprintln!, return Ok(())
                  /\ UNCHANGED <<data, persisted, loaded>>
  /\ UNCHANGED <<input, maybe_outfile, disk, content, files, wpc, measurement,
                 readers, out, measured, inserted, disk0, second, first, handles, savers, order>>

(***************************************************************************)
(* main, lines 59-80: resolve the target files.                             *)
(***************************************************************************)
RECURSIVE read_dir(_)
read_dir(es) ==
  IF es = <<>> THEN <<>>
  ELSE (IF es[1].is_file /\ extension(es[1].path) = "mp3" THEN <<es[1].path>> ELSE <<>>)
       \o read_dir(Tail(es))

Resolve ==
  /\ pc = "resolve"
  /\ IF input.kind = "missing"
     THEN /\ pc' = "no_path"                   \* eprintln!, return Ok(())
          /\ UNCHANGED <<files, wpc, measurement, out>>
     ELSE /\ files' = IF input.kind = "dir" THEN read_dir(input.entries)
                      ELSE <<input.entries[1].path>>
          /\ pc' = "for_each"
          /\ wpc' = [w \in 1..Len(files') |-> "check"]
          /\ measurement' = [w \in 1..Len(files') |-> None]
          /\ out' = [w \in 1..Len(files') |-> <<>>]
  /\ UNCHANGED <<input, maybe_outfile, disk, content, data, readers, measured,
                 inserted, persisted, disk0, loaded, second, first, handles, savers, order>>

(***************************************************************************)
(* The closure of files.par_iter().enumerate().for_each, lines 89-118.      *)
(***************************************************************************)
\* d.read().unwrap().contains_key(name)
contains_key(w) == name(w) \in DOMAIN data.v

\* A closure that measures without looking at the cache first.
CheckNeverSkips(w) ==
  /\ pc = "for_each" /\ wpc[w] = "check"
  /\ wpc' = [wpc EXCEPT ![w] = "measure"]
  /\ UNCHANGED <<input, maybe_outfile, disk, content, pc, data, files, measurement,
                 readers, out, measured, inserted, persisted, disk0, loaded, second, first, handles, savers, order>>

\* Lines 91-97: take the name of the file, which panics when the name is not
\* valid UTF-8; then skip a file whose key the cache holds.
Check(w) ==
  /\ pc = "for_each" /\ wpc[w] = "check"
  /\ IF ~stem_str(w).some
     THEN /\ wpc' = [wpc EXCEPT ![w] = "panicked"]     \* line 91: to_str().unwrap()
          /\ out' = out
     ELSE IF data.some /\ contains_key(w)
     THEN /\ out' = [out EXCEPT ![w] = Append(@, "skipping")]
          /\ wpc' = [wpc EXCEPT ![w] = "done"]
     ELSE /\ wpc' = [wpc EXCEPT ![w] = "measure"]
          /\ out' = out
  /\ UNCHANGED <<input, maybe_outfile, disk, content, pc, data, files, measurement,
                 readers, measured, inserted, persisted, disk0, loaded, second, first, handles, savers, order>>

\* Line 98: measure(f).  The audio of the file is what it is found to be when
\* it is first opened.
Measure(w) ==
  /\ pc = "for_each" /\ wpc[w] = "measure"
  /\ \E a \in (IF content[name(w)] = Unread THEN BatchFiles ELSE {content[name(w)]}) :
       LET r == measure(a)
       IN /\ content' = [content EXCEPT ![name(w)] = a]
          /\ out' = [out EXCEPT ![w] = @ \o r.log]
          /\ measurement' = [measurement EXCEPT ![w] = IF r.r = "Ok" THEN Some(r.m) ELSE None]
          /\ wpc' = [wpc EXCEPT ![w] =
                       IF r.r = "Panic" THEN "panicked"
                       ELSE IF r.r = "Err" THEN "done"
                       ELSE IF data.some THEN "recheck" ELSE "print"]
  /\ measured' = measured \cup {w}
  /\ UNCHANGED <<input, maybe_outfile, disk, pc, data, files, readers, inserted,
                 persisted, disk0, loaded, second, first, handles, savers, order>>

\* Lines 99-103: the second look at the cache, after the measurement.
Recheck(w) ==
  /\ pc = "for_each" /\ wpc[w] = "recheck"
  /\ IF contains_key(w)
     THEN /\ out' = [out EXCEPT ![w] = Append(@, "skipping")]
          /\ wpc' = [wpc EXCEPT ![w] = "done"]
          /\ measurement' = [measurement EXCEPT ![w] = None]
     ELSE /\ wpc' = [wpc EXCEPT ![w] = "insert"]
          /\ UNCHANGED <<out, measurement>>
  /\ UNCHANGED <<input, maybe_outfile, disk, content, pc, data, files, readers,
                 measured, inserted, persisted, disk0, loaded, second, first, handles, savers, order>>

\* An insert after which every index saves, whatever the stride.
InsertSavesAlways(w) ==
  /\ pc = "for_each" /\ wpc[w] = "insert"
  /\ readers = {}
  /\ data' = Some(HashInsert(data.v, name(w), measurement[w].v))
  /\ inserted' = inserted \cup {[key |-> name(w), by |-> w, new |-> name(w) \notin DOMAIN data.v]}
  /\ wpc' = [wpc EXCEPT ![w] = "save"]
  /\ order' = None
  /\ UNCHANGED <<input, maybe_outfile, disk, content, pc, files, measurement, readers,
                 out, measured, persisted, disk0, loaded, second, first, handles, savers>>

\* An insert that does not wait for the read guards of the saves under way.
InsertUnguarded(w) ==
  /\ pc = "for_each" /\ wpc[w] = "insert"
  /\ data' = Some(HashInsert(data.v, name(w), measurement[w].v))
  /\ inserted' = inserted \cup {[key |-> name(w), by |-> w, new |-> name(w) \notin DOMAIN data.v]}
  /\ wpc' = [wpc EXCEPT ![w] = IF Index(w) % Stride = 0 THEN "save" ELSE "print"]
  /\ order' = None
  /\ UNCHANGED <<input, maybe_outfile, disk, content, pc, files, measurement, readers,
                 out, measured, persisted, disk0, loaded, second, first, handles, savers>>

\* Lines 104-109: d.write().insert(name, measurement), which waits for the read
\* guards to go; then the stride decides whether this index saves.
Insert(w) ==
  /\ pc = "for_each" /\ wpc[w] = "insert"
  /\ readers = {}
  /\ data' = Some(HashInsert(data.v, name(w), measurement[w].v))
  /\ inserted' = inserted \cup {[key |-> name(w), by |-> w, new |-> name(w) \notin DOMAIN data.v]}
  /\ wpc' = [wpc EXCEPT ![w] = IF Index(w) % Stride = 0 THEN "save" ELSE "print"]
  /\ order' = None
  /\ UNCHANGED <<input, maybe_outfile, disk, content, pc, files, measurement, readers,
                 out, measured, persisted, disk0, loaded, second, first, handles, savers>>

\* The keys the closures inserted.
InsertedKeys == {e.key : e \in inserted}

(***************************************************************************)
(* fn save, lines 129-134, under the caller's read guard.                   *)
(***************************************************************************)
\* File::create(to): the file exists and is empty.
save_create(who) ==
  /\ readers' = readers \cup {who}
  /\ disk' = FileOf(<<>>)

\* A save that writes only the entries inserted in this run.
save_write_inserted_only(who) ==
  /\ LET d == [k \in InsertedKeys |-> data.v[k]]
     IN \E ks \in IterKeys(d, None) : disk' = FileOf(to_string(d, ks))
  /\ readers' = readers \ {who}
  /\ persisted' = data.v
  /\ order' = order

\* A save that makes one write call, which writes the first half of the text.
save_write_once(who) ==
  /\ \E ks \in IterKeys(data.v, order) :
       LET text == to_string(data.v, ks)
       IN /\ disk' = FileOf(SubSeq(text, 1, Len(text) \div 2))
          /\ order' = Some(ks)
  /\ readers' = readers \ {who}
  /\ persisted' = data.v

\* file.write_all(to_string(d)); the caller's guard is dropped after save returns.
save_write(who) ==
  /\ \E ks \in IterKeys(data.v, order) :
       /\ disk' = FileOf(to_string(data.v, ks))
       /\ order' = Some(ks)
  /\ readers' = readers \ {who}
  /\ persisted' = data.v

\* Line 110: save(&d.read().unwrap(), path).unwrap()
PeriodicCreate(w) ==
  /\ pc = "for_each" /\ wpc[w] = "save"
  /\ save_create(w)
  /\ savers' = savers \cup {w}
  /\ wpc' = [wpc EXCEPT ![w] = "write"]
  /\ UNCHANGED <<input, maybe_outfile, content, pc, data, files, measurement, out,
                 measured, inserted, persisted, disk0, loaded, second, first, handles, order>>

PeriodicWrite(w) ==
  /\ pc = "for_each" /\ wpc[w] = "write"
  /\ save_write(w)
  /\ wpc' = [wpc EXCEPT ![w] = "print"]
  /\ UNCHANGED <<input, maybe_outfile, content, pc, data, files, measurement, out,
                 measured, inserted, disk0, loaded, second, first, handles, savers>>

\* Lines 113-116: the result line.
PrintResult(w) ==
  /\ pc = "for_each" /\ wpc[w] = "print"
  /\ out' = [out EXCEPT ![w] = Append(@, "result")]
  /\ wpc' = [wpc EXCEPT ![w] = "done"]
  /\ measurement' = [measurement EXCEPT ![w] = None]
  /\ UNCHANGED <<input, maybe_outfile, disk, content, pc, data, files, readers,
                 measured, inserted, persisted, disk0, loaded, second, first, handles, savers, order>>

\* A panic in a closure unwinds the rayon job it runs in: the files that job
\* had still to take, the ones right after it, are never started.
Abandon(w) ==
  /\ pc = "for_each" /\ wpc[w] = "check"
  /\ w > 1 /\ wpc[w - 1] \in {"panicked", "abandoned"}
  /\ wpc' = [wpc EXCEPT ![w] = "abandoned"]
  /\ UNCHANGED <<input, maybe_outfile, disk, content, pc, data, files, measurement,
                 readers, out, measured, inserted, persisted, disk0, loaded, second, first, handles, savers, order>>

(***************************************************************************)
(* main, lines 118-126: for_each returns when every job has ended, and       *)
(* resumes a closure's panic; then the final save.                          *)
(***************************************************************************)
Ended(w) == wpc[w] \in {"done", "panicked", "abandoned"}

\* main without its final save.
JoinNoFinalSave ==
  /\ pc = "for_each"
  /\ \A w \in Workers : Ended(w)
  /\ pc' = IF \E w \in Workers : wpc[w] = "panicked" THEN "panicked" ELSE "done"
  /\ UNCHANGED <<input, maybe_outfile, disk, content, data, files, wpc, measurement,
                 readers, out, measured, inserted, persisted, disk0, loaded, second, first, handles, savers, order>>

Join ==
  /\ pc = "for_each"
  /\ \A w \in Workers : Ended(w)
  /\ pc' = IF \E w \in Workers : wpc[w] = "panicked" THEN "panicked"
           ELSE IF data.some THEN "final" ELSE "done"
  /\ UNCHANGED <<input, maybe_outfile, disk, content, data, files, wpc, measurement,
                 readers, out, measured, inserted, persisted, disk0, loaded, second, first, handles, savers, order>>

FinalCreate ==
  /\ pc = "final"
  /\ save_create("main")
  /\ pc' = "final_write"
  /\ UNCHANGED <<input, maybe_outfile, content, data, files, wpc, measurement, out,
                 measured, inserted, persisted, disk0, loaded, second, first, handles, savers, order>>

FinalWrite ==
  /\ pc = "final_write"
  /\ save_write("main")
  /\ pc' = "done"
  /\ UNCHANGED <<input, maybe_outfile, content, data, files, wpc, measurement, out,
                 measured, inserted, disk0, loaded, second, first, handles, savers>>

\* main has returned, Ok at lines 46, 62 and 126, Err through `?` at lines 38,
\* 67 and 70 ("io_error") and at line 123 ("save_error"), or has panicked.
Exited == pc \in {"done", "malformed", "no_path", "panicked", "io_error", "save_error"}

(***************************************************************************)
(* The batch run again: the same input and cache file path, the files and   *)
(* the cache file as the first run left them.                               *)
(***************************************************************************)
Rerun ==
  /\ Exited /\ ~second
  /\ first' = [ended |-> pc, data |-> data]
  /\ second' = TRUE
  /\ disk0' = disk
  /\ loaded' = EmptyMap
  /\ pc' = "load"
  /\ data' = None
  /\ files' = <<>>
  /\ wpc' = <<>>
  /\ measurement' = <<>>
  /\ readers' = {}
  /\ out' = <<>>
  /\ measured' = {}
  /\ inserted' = {}
  /\ persisted' = EmptyMap
  /\ handles' = NoHandles
  /\ savers' = {}
  /\ order' = None
  /\ UNCHANGED <<input, maybe_outfile, disk, content>>

Next ==
  \/ Load
  \/ Resolve
  \/ \E w \in Workers : Check(w)
  \/ \E w \in Workers : Measure(w)
  \/ \E w \in Workers : Recheck(w)
  \/ \E w \in Workers : Insert(w)
  \/ \E w \in Workers : PeriodicCreate(w)
  \/ \E w \in Workers : PeriodicWrite(w)
  \/ \E w \in Workers : PrintResult(w)
  \/ \E w \in Workers : Abandon(w)
  \/ Join
  \/ FinalCreate
  \/ FinalWrite

Spec == Init /\ [][Next]_vars

\* Two runs in a row over a directory of mp3 files, with a cache file path.
InitTwice ==
  /\ Init
  /\ maybe_outfile
  /\ input.kind = "dir"
  /\ \A j \in 1..Len(input.entries) : input.entries[j] = Entry(j, "mp3")
NextTwice == Next \/ Rerun
SpecTwice == InitTwice /\ [][NextTwice]_vars


(***************************************************************************)
(* Several closures on one key.  The key of a closure is the stem of its    *)
(* file (line 91), and the files are the entries read_dir yields (lines     *)
(* 67-75): the stems of one listing differ unless the listing holds an      *)
(* entry twice, which readdir may do for a file that is removed and created *)
(* again (or renamed away and back) while the directory is read.  Here the  *)
(* listing holds the entry of the first file twice, next to each other or   *)
(* with another entry in between.                                           *)
(***************************************************************************)
RaceListings ==
  {<<Entry(1, "mp3"), Entry(1, "mp3")>>}
    \cup {<<Entry(1, "mp3"), Entry(2, k), Entry(1, "mp3")>> : k \in EntryKinds}

InitRace ==
  /\ input \in {[kind |-> "dir", entries |-> l] : l \in RaceListings}
  /\ maybe_outfile \in BOOLEAN
  /\ disk \in (IF maybe_outfile THEN Disks ELSE {Absent})
  /\ content = [k \in Stems |-> Unread]
  /\ pc = "load"
  /\ data = None
  /\ files = <<>>
  /\ wpc = <<>>
  /\ measurement = <<>>
  /\ readers = {}
  /\ out = <<>>
  /\ measured = {}
  /\ inserted = {}
  /\ persisted = EmptyMap
  /\ disk0 = disk
  /\ loaded = EmptyMap
  /\ second = FALSE
  /\ first = NoFirst
  /\ handles = NoHandles
  /\ savers = {}
  /\ order = None

SpecRace == InitRace /\ [][Next]_vars

(***************************************************************************)
(* Saving and loading any cache: main right before its final save, over a   *)
(* directory with no mp3 file, holding the cache it loaded; then the final  *)
(* save, and a second run that loads the file.                              *)
(***************************************************************************)
\* The f64 values of the maps saved: every k / Unit up to MaxNum / Unit, whole
\* and fractional, of either sign.  A map of a run holds finite values only:
\* the numbers of a JSON text, and results of measure, which returns Ok only
\* with the energy of a gated block (lines 251-262).
Numbers == (-MaxNum)..MaxNum
RoundTripMaps ==
  {EmptyMap}
    \cup {[k \in {Stem(1)} |-> Measurement(l, e)] : l \in Numbers, e \in Numbers}
    \cup {[k \in {Stem(1), ForeignKey} |->
             IF k = Stem(1) THEN Measurement(l, e) ELSE Measurement(e, l)] :
           l \in Numbers, e \in Numbers}

InitRoundTrip ==
  /\ input = [kind |-> "dir", entries |-> <<>>]
  /\ maybe_outfile = TRUE
  /\ \E m \in RoundTripMaps :
       /\ data = Some(m)
       /\ loaded = m
       /\ persisted = m
       /\ disk = FileOf(WrittenText(m))
  /\ disk0 = disk
  /\ content = [k \in Stems |-> Unread]
  /\ pc = "final"
  /\ files = <<>>
  /\ wpc = <<>>
  /\ measurement = <<>>
  /\ readers = {}
  /\ out = <<>>
  /\ measured = {}
  /\ inserted = {}
  /\ second = FALSE
  /\ first = NoFirst
  /\ handles = NoHandles
  /\ savers = {}
  /\ order = None

NextRoundTrip == FinalCreate \/ FinalWrite \/ Rerun \/ Load
SpecRoundTrip == InitRoundTrip /\ [][NextRoundTrip]_vars

(***************************************************************************)
(* Several saves at once.  The closures of the indices 0, Stride, 2 Stride, *)
(* ... each save under a read guard of their own, and read guards are       *)
(* shared: their File::create and write calls interleave on the one file.   *)
(* Here write_all is taken one write call at a time: a call writes all that *)
(* remains of the text, or (the first call) only its first half, at the     *)
(* offset of the caller's own File.                                         *)
(***************************************************************************)
Nul == <<"nul">>

\* write(2) of buf at offset pos of a file whose text is t: a gap is zero-filled.
WriteAt(t, pos, buf) ==
  [j \in 1..(IF Len(t) > pos + Len(buf) THEN Len(t) ELSE pos + Len(buf)) |->
     IF j > pos /\ j <= pos + Len(buf) THEN buf[j - pos]
     ELSE IF j <= Len(t) THEN t[j] ELSE Nul]

\* Line 131, the text a save writes.  Saves that overlap serialize the same
\* map, which no insert changes under their read guards: their texts are equal.
Serialized(who) ==
  IF who \in DOMAIN handles THEN {handles[who].text}
  ELSE {to_string(data.v, ks) : ks \in IterKeys(data.v, order)}

\* Line 132, one write call of write_all; after the last one save returns and
\* the caller drops its read guard.
write_call(who) ==
  \E text \in Serialized(who) :
    LET pos == IF who \in DOMAIN handles THEN handles[who].pos ELSE 0
        rest == SubSeq(text, pos + 1, Len(text))
    IN \E n \in {Len(rest)} \cup (IF pos = 0 THEN {Len(rest) \div 2} ELSE {}) :
         /\ disk' = FileOf(WriteAt(disk.text, pos, SubSeq(rest, 1, n)))
         /\ order' = Some(TextOrder(text))
         /\ IF n = Len(rest)
            THEN /\ handles' = [v \in DOMAIN handles \ {who} |-> handles[v]]
                 /\ readers' = readers \ {who}
                 /\ persisted' = data.v
            ELSE /\ handles' = [v \in DOMAIN handles \cup {who} |->
                                  IF v = who THEN [text |-> text, pos |-> pos + n]
                                  ELSE handles[v]]
                 /\ UNCHANGED <<readers, persisted>>

PeriodicWriteCall(w) ==
  /\ pc = "for_each" /\ wpc[w] = "write"
  /\ write_call(w)
  /\ wpc' = [wpc EXCEPT ![w] = IF w \in readers' THEN "write" ELSE "print"]
  /\ UNCHANGED <<input, maybe_outfile, content, pc, data, files, measurement, out,
                 measured, inserted, disk0, loaded, second, first, savers>>

FinalWriteCall ==
  /\ pc = "final_write"
  /\ write_call("main")
  /\ pc' = IF "main" \in readers' THEN "final_write" ELSE "done"
  /\ UNCHANGED <<input, maybe_outfile, content, data, files, wpc, measurement, out,
                 measured, inserted, disk0, loaded, second, first, savers>>

\* The closures still to run: those of the indices 0, 1 and the multiples of
\* Stride; the file of index 1 may be in the cache file.  The other files
\* could not be opened, and their closures have returned.
Active == {1, 2} \cup {k * Stride + 1 : k \in 1..(NumSavers - 1)}

InitSavers ==
  /\ input = [kind |-> "dir", entries |-> [j \in 1..NumTargets |-> Entry(j, "mp3")]]
  /\ maybe_outfile = TRUE
  /\ loaded \in {EmptyMap, [k \in {Stem(2)} |-> OldMeasurement]}
  /\ disk = FileOf(WrittenText(loaded))
  /\ disk0 = disk
  /\ \E c \in [Active -> {Good, Silent}] :
       /\ Stem(2) \in DOMAIN loaded => c[2] = Good
       /\ content = [k \in {Stem(j) : j \in 1..NumTargets} |->
                      LET j == CHOOSE i \in 1..NumTargets : Stem(i) = k
                      IN IF j \in Active THEN c[j] ELSE NoOpen]
  /\ pc = "for_each"
  /\ data = Some(loaded)
  /\ persisted = loaded
  /\ files = read_dir(input.entries)
  /\ wpc = [w \in 1..NumTargets |-> IF w \in Active THEN "check" ELSE "done"]
  /\ measurement = [w \in 1..NumTargets |-> None]
  /\ out = [w \in 1..NumTargets |-> IF w \in Active THEN <<>> ELSE measure(NoOpen).log]
  /\ readers = {}
  /\ measured = (1..NumTargets) \ Active
  /\ inserted = {}
  /\ second = FALSE
  /\ first = NoFirst
  /\ handles = NoHandles
  /\ savers = {}
  /\ order = None

NextSavers ==
  \/ \E w \in Workers : Check(w)
  \/ \E w \in Workers : Measure(w)
  \/ \E w \in Workers : Recheck(w)
  \/ \E w \in Workers : Insert(w)
  \/ \E w \in Workers : PeriodicCreate(w)
  \/ \E w \in Workers : PeriodicWriteCall(w)
  \/ \E w \in Workers : PrintResult(w)
  \/ Join
  \/ FinalCreate
  \/ FinalWriteCall

SpecSavers == InitSavers /\ [][NextSavers]_vars


(***************************************************************************)
(* The run with I/O errors.  File::create or write_all of a save may fail:  *)
(* the periodic save is unwrapped (line 110), so the closure panics; the    *)
(* final save is returned with `?` (line 123), so main returns the error.   *)
(* File::open of the cache file (line 38) and read_dir (lines 67-70) are    *)
(* returned with `?` as well.                                               *)
(***************************************************************************)
\* Line 38: File::open(outfile)? fails.
OpenFails ==
  /\ pc = "load" /\ maybe_outfile /\ disk.exists
  /\ pc' = "io_error"
  /\ UNCHANGED <<input, maybe_outfile, disk, content, data, files, wpc, measurement,
                 readers, out, measured, inserted, persisted, disk0, loaded, second, first,
                 handles, savers, order>>

\* Lines 67-70: read_dir(path)? or entry? fails.
ReadDirFails ==
  /\ pc = "resolve" /\ input.kind = "dir"
  /\ pc' = "io_error"
  /\ UNCHANGED <<input, maybe_outfile, disk, content, data, files, wpc, measurement,
                 readers, out, measured, inserted, persisted, disk0, loaded, second, first,
                 handles, savers, order>>

\* Line 110 with File::create failing (line 130): save returns Err, unwrap panics.
PeriodicCreateFails(w) ==
  /\ pc = "for_each" /\ wpc[w] = "save"
  /\ savers' = savers \cup {w}
  /\ wpc' = [wpc EXCEPT ![w] = "panicked"]
  /\ UNCHANGED <<input, maybe_outfile, disk, content, pc, data, files, measurement, readers,
                 out, measured, inserted, persisted, disk0, loaded, second, first, handles, order>>

\* Line 132, write_all failing: the write calls that succeeded before the one
\* that failed left the beginning of the text in the file, which may be none
\* of it; save returns Err.
save_write_fails(who) ==
  /\ \E ks \in IterKeys(data.v, order) :
       LET text == to_string(data.v, ks)
       IN /\ \E n \in 0..(Len(text) - 1) :
               disk' = FileOf(WriteAt(disk.text, 0, SubSeq(text, 1, n)))
          /\ order' = Some(ks)
  /\ readers' = readers \ {who}

\* Line 110 with write_all failing: unwrap panics, the read guard is dropped
\* by the unwinding.
PeriodicWriteFails(w) ==
  /\ pc = "for_each" /\ wpc[w] = "write"
  /\ save_write_fails(w)
  /\ wpc' = [wpc EXCEPT ![w] = "panicked"]
  /\ UNCHANGED <<input, maybe_outfile, content, pc, data, files, measurement,
                 out, measured, inserted, persisted, disk0, loaded, second, first,
                 handles, savers>>

\* Line 123 with File::create failing: main returns Err.
FinalCreateFails ==
  /\ pc = "final"
  /\ pc' = "save_error"
  /\ UNCHANGED <<input, maybe_outfile, disk, content, data, files, wpc, measurement,
                 readers, out, measured, inserted, persisted, disk0, loaded, second, first,
                 handles, savers, order>>

\* Line 123 with write_all failing: main returns Err.
FinalWriteFails ==
  /\ pc = "final_write"
  /\ save_write_fails("main")
  /\ pc' = "save_error"
  /\ UNCHANGED <<input, maybe_outfile, content, data, files, wpc, measurement,
                 out, measured, inserted, persisted, disk0, loaded, second, first,
                 handles, savers>>

NextFaults ==
  \/ Next
  \/ OpenFails
  \/ ReadDirFails
  \/ \E w \in Workers : PeriodicCreateFails(w)
  \/ \E w \in Workers : PeriodicWriteFails(w)
  \/ FinalCreateFails
  \/ FinalWriteFails

SpecFaults == Init /\ [][NextFaults]_vars

(***************************************************************************)
(* measure on any audio file: main on a single file without a cache file,   *)
(* the file being any sequence of at most MaxPackets packets.  The block of *)
(* the packet at position j, when it passes the gate, has the energy        *)
(* 2^(j-1), so that the energy of a result tells which blocks were fed.     *)
(***************************************************************************)
BlockEnergy(j) == 2 ^ (j - 1)

\* What next_packet and decode make of the packet at position j.
PacketKinds(j) ==
  { Packet(FALSE, "Ok", 2, BlockEnergy(j)),        \* of another track
    Packet(TRUE, "Ok", 2, BlockEnergy(j)),         \* a block that passes the gate
    Packet(TRUE, "Ok", 2, 0),                      \* a block below the gate
    Packet(TRUE, "Ok", 0, 0),                      \* an empty block
    Packet(TRUE, "DecodeError", 0, 0),
    Packet(TRUE, "IoError", 0, 0),
    Packet(TRUE, "UnexpectedEof", 0, 0),
    Packet(TRUE, "ResetRequired", 0, 0) }

PacketSeqs ==
  UNION {{pk \in [1..n -> UNION {PacketKinds(j) : j \in 1..n}] :
            \A j \in 1..n : pk[j] \in PacketKinds(j)} : n \in 0..MaxPackets}

Audios == {Audio(TRUE, TRUE, TRUE, TRUE, TRUE, TRUE, pk) : pk \in PacketSeqs}

InitMeasure ==
  /\ input = [kind |-> "file", entries |-> <<Entry(1, "mp3")>>]
  /\ maybe_outfile = FALSE
  /\ disk = Absent
  /\ disk0 = disk
  /\ \E a \in Audios : content = [k \in Stems |-> IF k = Stem(1) THEN a ELSE Unread]
  /\ pc = "load"
  /\ data = None
  /\ files = <<>>
  /\ wpc = <<>>
  /\ measurement = <<>>
  /\ readers = {}
  /\ out = <<>>
  /\ measured = {}
  /\ inserted = {}
  /\ persisted = EmptyMap
  /\ loaded = EmptyMap
  /\ second = FALSE
  /\ first = NoFirst
  /\ handles = NoHandles
  /\ savers = {}
  /\ order = None

NextMeasure ==
  \/ Load
  \/ Resolve
  \/ \E w \in Workers : Check(w)
  \/ \E w \in Workers : Measure(w)
  \/ \E w \in Workers : PrintResult(w)
  \/ Join

SpecMeasure == InitMeasure /\ [][NextMeasure]_vars

(***************************************************************************)
(* What the run started from, and what it measured.                         *)
(***************************************************************************)
\* Whether the text of a cache file is read and parsed into a map.
Loads(d) ==
  /\ \A j \in 1..Len(d.text) : d.text[j] /= InvalidUtf8
  /\ from_str(d.text).ok

\* The files whose measurement is known to succeed.
Valid(k) == k \in DOMAIN content /\ content[k] /= Unread /\ measure(content[k]).r = "Ok"

\* C1: first writer wins, as claimed.  Every insert applied found its key
\* absent, no key is inserted twice in a run, however many closures work on
\* it, every entry of the cache keeps the value it was loaded or first
\* inserted with, and once the closures have ended a key that was absent and
\* measured has exactly one insert.
C1_FirstWriterWins ==
  LET L == loaded
  IN /\ \A e \in inserted : e.new
     /\ \A k \in InsertedKeys : Cardinality({e \in inserted : e.key = k}) = 1
     /\ data.some =>
          /\ DOMAIN data.v = DOMAIN L \cup InsertedKeys
          /\ \A k \in DOMAIN data.v :
               data.v[k] = IF k \in DOMAIN L THEN L[k] ELSE measure(content[k]).m
     /\ (data.some /\ pc \in {"final", "final_write", "done"}) =>
          \A w \in Workers :
            (name(w) \notin DOMAIN L /\ Valid(name(w))) =>
              Cardinality({e \in inserted : e.key = name(w)}) = 1

\* C2: final flush.  When a run with a cache file path has returned from its
\* final save, the file parses to exactly the cache in memory: the entries
\* loaded and the entries measured and inserted in the run.
C2_FinalFlush ==
  (maybe_outfile /\ pc = "done") =>
    LET L == loaded
    IN /\ disk.exists /\ Loads(disk)
       /\ from_str(disk.text).v = data.v
       /\ DOMAIN data.v = DOMAIN L \cup {name(w) : w \in {v \in Workers : Valid(name(v))}}
       /\ \A k \in DOMAIN L : data.v[k] = L[k]
       /\ \A k \in InsertedKeys : data.v[k] = measure(content[k]).m

\* C2's case: the run has ended; the closure of index 0 failed, so no
\* periodic save was made, another closure inserted its result, and the file
\* started with an entry of its own.
C2_Witness ==
  /\ maybe_outfile /\ pc = "done"
  /\ Len(files) > 1
  /\ ~Valid(name(1))
  /\ \E e \in inserted : Index(e.by) % Stride /= 0
  /\ ForeignKey \in DOMAIN loaded

\* C4: malformed-snapshot guard.  When the cache file exists and does not
\* deserialize, main never gets to resolving the targets: no file list, no
\* closure, no measure call, and the file stays as it was.
C4_MalformedGuard ==
  (maybe_outfile /\ disk0.exists /\ ~Loads(disk0)) =>
    /\ pc \in {"load", "malformed", "panicked"}
    /\ files = <<>> /\ wpc = <<>>
    /\ measured = {} /\ inserted = {}
    /\ disk = disk0

\* C4's case: main has returned on a cache file that is JSON of the wrong shape.
C4_Witness ==
  /\ pc = "malformed"
  /\ input.kind = "dir" /\ Len(input.entries) > 0
  /\ disk0.text /= <<>>
  /\ disk = disk0

\* C3: partial-failure isolation, as claimed.  After a completed run that
\* started from an empty cache, every file was processed, every valid file is
\* in the cache, every failing file printed a report and is not in the cache,
\* and the cache file holds exactly the valid files.
C3_PartialFailureIsolation ==
  (data.some /\ loaded = EmptyMap /\ pc = "done") =>
    /\ \A w \in Workers : w \in measured /\ wpc[w] = "done"
    /\ \A w \in Workers : Valid(name(w)) => name(w) \in DOMAIN data.v
    /\ \A w \in Workers : ~Valid(name(w)) => out[w] /= <<>> /\ name(w) \notin DOMAIN data.v
    /\ DOMAIN data.v = {name(w) : w \in {v \in Workers : Valid(name(v))}}
    /\ disk.exists /\ Loads(disk) /\ from_str(disk.text).v = data.v

\* C5, as claimed: a second run after a completed first run calls measure for
\* no file, prints "skipping" for every file, and leaves the mapping of the
\* cache file as it was.
C5_SecondRunSkipsAll ==
  (second /\ first.ended = "done") =>
    /\ measured = {}
    /\ pc = "done" =>
         /\ \A w \in Workers : out[w] = <<"skipping">>
         /\ Loads(disk) /\ from_str(disk.text).v = from_str(disk0.text).v

\* C5, amended: a second run after a completed first run inserts nothing,
\* skips without a measure call every file the first run measured or skipped,
\* calls measure only for files whose measurement fails, and leaves the
\* mapping of the cache file as it was.
C5_Idempotent ==
  (second /\ first.ended = "done") =>
    /\ inserted = {}
    /\ \A w \in measured : ~Valid(name(w))
    /\ pc /= "load" => first.data.some /\ loaded = first.data.v
    /\ \A w \in Workers :
         (Valid(name(w)) \/ name(w) \in DOMAIN loaded) =>
           /\ w \notin measured
           /\ wpc[w] \in {"check", "done"}
           /\ wpc[w] = "done" => out[w] = <<"skipping">>
    /\ pc = "done" => Loads(disk) /\ from_str(disk.text).v = from_str(disk0.text).v

\* C5's case: the second run has ended; it skipped a file the first run had
\* measured, and the cache file holds that file's entry.
C5_Witness ==
  /\ second /\ first.ended = "done" /\ pc = "done"
  /\ \E w \in Workers :
       /\ Valid(name(w))
       /\ out[w] = <<"skipping">>
       /\ name(w) \in DOMAIN from_str(disk.text).v
  /\ Len(files) > 1

\* C6: interruption tolerance, as claimed.  At every point of a run whose
\* last completed save (or loaded file) holds entries, the cache file loads
\* and holds every one of those entries.
C6_InterruptionTolerant ==
  (data.some /\ persisted /= EmptyMap) =>
    /\ disk.exists /\ Loads(disk)
    /\ \A k \in DOMAIN persisted :
         /\ k \in DOMAIN from_str(disk.text).v
         /\ from_str(disk.text).v[k] = persisted[k]

\* C7: no-cache mode, as claimed.  Without a cache file path there is no
\* cache, no insert, no save and no "skipping" line, and when the run ends
\* every file was measured and every valid file printed its result.
C7_NoCacheMode ==
  ~maybe_outfile =>
    /\ data = None /\ inserted = {} /\ readers = {} /\ disk = disk0
    /\ \A w \in Workers : \A j \in 1..Len(out[w]) : out[w][j] /= "skipping"
    /\ pc \in {"done", "panicked"} =>
         \A w \in Workers :
           /\ w \in measured
           /\ Valid(name(w)) => out[w][Len(out[w])] = "result"

\* C8: one line per file, as claimed.  A closure that has returned printed
\* exactly one line.
C8_OneLinePerFile ==
  \A w \in Workers : wpc[w] = "done" => Len(out[w]) = 1

C9_WitnessEmpty ==
  /\ second /\ pc = "resolve"
  /\ first.data = Some(EmptyMap)
  /\ data = Some(EmptyMap)

\* C10: skip-if-present.  The closure of a file whose key was loaded never
\* calls measure and never goes past its first check; when it has returned
\* it printed "skipping" and nothing else; the entry keeps the loaded value.
C10_SkipIfPresent ==
  data.some =>
    \A w \in Workers :
      name(w) \in DOMAIN loaded =>
        /\ w \notin measured
        /\ wpc[w] \in {"check", "done", "abandoned"}
        /\ wpc[w] = "done" => out[w] = <<"skipping">>
        /\ name(w) \in DOMAIN data.v /\ data.v[name(w)] = loaded[name(w)]

\* C10's case: the run has ended; one closure skipped a loaded key and
\* another inserted a new one.
C10_Witness ==
  /\ pc = "done" /\ data.some
  /\ \E w \in Workers : name(w) \in DOMAIN loaded /\ out[w] = <<"skipping">>
  /\ inserted /= {}

\* Whether a file text is the whole serialization of the map d, its keys in
\* some order, each once.
SerializationOf(t, d) ==
  LET ks == TextOrder(t)
  IN /\ Len(ks) = Cardinality(DOMAIN d)
     /\ {ks[j] : j \in 1..Len(ks)} = DOMAIN d
     /\ t = to_string(d, ks)

\* C11: snapshot consistency under concurrency.  No insert changes the map
\* while a save holds its read guard; and whenever no save is under way the
\* cache file is the complete serialization of one map, the one the cache
\* held when the last save returned (or that was loaded), whose entries the
\* cache still holds.
C11_SnapshotConsistent ==
  /\ [][readers /= {} => data' = data]_vars
  /\ []((pc \in {"for_each", "final", "done"} /\ readers = {} /\ disk.exists) =>
         /\ SerializationOf(disk.text, persisted)
         /\ DOMAIN persisted \subseteq DOMAIN data.v
         /\ \A k \in DOMAIN persisted : data.v[k] = persisted[k])

\* C11's case: two closures saved at once; one has returned, having written
\* the second half of its text after the other truncated the file, which is
\* torn until the other writes; a third closure waits to insert.
C11_Witness ==
  /\ readers /= {} /\ persisted /= loaded
  /\ \E w \in Workers : wpc[w] = "insert"
  /\ \E j \in 1..Len(disk.text) : disk.text[j] = Nul

\* Whether closure w printed a numeric result line.
Reported(w) == \E j \in 1..Len(out[w]) : out[w][j] = "result"

\* C12: duplicate suppression in reporting, as claimed.  With a cache, a
\* closure that has returned after a successful measurement without an
\* applied insert printed "skipping" and no numeric result; a numeric result
\* is printed only by a closure whose insert of its own key was applied, the
\* key being absent; and no key has two numeric result lines.
C12_DuplicateSuppression ==
  data.some =>
    /\ \A w \in Workers :
         (wpc[w] = "done" /\ w \in measured /\ Valid(name(w))
            /\ ~\E e \in inserted : e.by = w) =>
           out[w][Len(out[w])] = "skipping" /\ ~Reported(w)
    /\ \A w \in Workers :
         Reported(w) => \E e \in inserted : e.by = w /\ e.key = name(w) /\ e.new
    /\ \A w, v \in Workers :
         (Reported(w) /\ Reported(v) /\ name(w) = name(v)) => w = v

\* Whether the insert of closure w was applied.
InsertedBy(w) == \E e \in inserted : e.by = w

\* C13, as claimed: with a cache, every closure of an index that is a
\* multiple of Stride has called save when it returns, and no closure of
\* another index ever calls save.
C13_EveryStrideIndexSaves ==
  data.some =>
    /\ \A w \in Workers : (wpc[w] = "done" /\ Index(w) % Stride = 0) => w \in savers
    /\ \A w \in savers : Index(w) % Stride = 0

\* C13, amended: with a cache, a closure calls save exactly when its index is
\* a multiple of Stride and its insert was applied: a closure past its
\* insert has called save if and only if its index is such a multiple, a
\* closure that skipped or failed never has, and the save it returned from
\* wrote its entry to the cache file's map.
C13_StrideSnapshot ==
  data.some =>
    \A w \in Workers :
      /\ w \in savers => Index(w) % Stride = 0 /\ InsertedBy(w)
      /\ (InsertedBy(w) /\ wpc[w] \in {"write", "print", "done"}) =>
           (w \in savers <=> Index(w) % Stride = 0)
      /\ (w \in savers /\ wpc[w] \in {"print", "done"}) => name(w) \in DOMAIN persisted

\* C13's case: the closure of index Stride has saved and returned, the closure
\* of index 0 has returned without a save since its file failed, and the
\* closure of index 1 has inserted and returned without a save.
C13_Witness ==
  /\ data.some /\ pc = "for_each"
  /\ \E w \in savers : Index(w) = Stride /\ wpc[w] = "done"
  /\ \E w \in Workers : Index(w) = 0 /\ wpc[w] = "done" /\ w \in measured /\ w \notin savers
  /\ \E w \in Workers : Index(w) = 1 /\ wpc[w] = "done" /\ InsertedBy(w) /\ w \notin savers

\* Whether main got past the cache load and the target resolution.
Started ==
  \/ pc \in {"for_each", "final", "final_write", "done", "save_error"}
  \/ pc = "panicked" /\ \E w \in Workers : wpc[w] = "panicked"

\* The terminal outcomes of a closure.
Skipped(w) == wpc[w] = "done" /\ w \notin measured /\ out[w] = <<"skipping">>
MeasuredOk(w) == wpc[w] = "done" /\ w \in measured /\ Valid(name(w)) /\ Reported(w)
FailedFile(w) == wpc[w] = "done" /\ w \in measured /\ ~Valid(name(w)) /\ ~Reported(w)

\* C14: run completion, as claimed.  A run past load and resolution that has
\* not returned can always take a step (no closure is stuck on the lock), and
\* when main has returned every file has exactly one terminal outcome and,
\* with a cache, the final save was performed.
C14_RunCompletes ==
  Started =>
    /\ pc \notin {"done", "panicked"} => ENABLED Next
    /\ pc \in {"done", "panicked"} =>
         /\ pc = "done"
         /\ \A w \in Workers :
              Cardinality({o \in {"skipped", "measured", "failed"} :
                             \/ o = "skipped" /\ Skipped(w)
                             \/ o = "measured" /\ MeasuredOk(w)
                             \/ o = "failed" /\ FailedFile(w)}) = 1
         /\ data.some => persisted = data.v /\ SerializationOf(disk.text, data.v)

\* Whether the track of an audio file lacks its channel count or its sample rate.
MissingMetadata(a) ==
  a /= Unread /\ a.open /\ a.probe /\ a.track /\ a.decoder /\ (~a.channels \/ ~a.rate)

\* C15: missing track metadata is a per-file failure, as claimed.  The closure
\* of such a file returns from measure with a failure, the other files are
\* not abandoned, and the run does not end with a panic.
C15_MissingMetadataIsPerFile ==
  \A w \in Workers :
    (w \in measured /\ MissingMetadata(content[name(w)])) =>
      /\ wpc[w] = "done" /\ ~measurement[w].some
      /\ \A v \in Workers : wpc[v] /= "abandoned"
      /\ pc /= "panicked"

\* C16: a snapshot I/O failure does not abort the batch, as claimed.  In a
\* run in which a periodic save was called, every file has a name and measure
\* did not panic: no closure ends with a panic, whatever its save returned,
\* no file is abandoned, and main does not end with a panic or an I/O error.
C16_SnapshotFailureTolerated ==
  ((\A w \in Workers : stem_str(w).some)
     /\ \A w \in measured : measure(content[name(w)]).r /= "Panic") =>
    \A w \in savers :
      /\ wpc[w] /= "panicked"
      /\ \A v \in Workers : wpc[v] /= "abandoned"
      /\ pc \notin {"panicked", "io_error", "save_error"}

\* The packets that end the decode loop, and the ones it passes over.
EndsLoop(p) == p.own /\ p.dec \notin {"Ok", "DecodeError"}
PassedOver(p) == ~p.own \/ p.dec = "DecodeError" \/ (p.dec = "Ok" /\ p.frames = 0)

\* The position of the first packet that ends the loop, or one past the last.
BreakAt(pk) ==
  CHOOSE j \in 1..(Len(pk) + 1) :
    /\ j = Len(pk) + 1 \/ EndsLoop(pk[j])
    /\ \A i \in 1..(j - 1) : ~EndsLoop(pk[i])

\* The positions before n of the non-empty blocks of the selected track that
\* pass the gate.
GatedBlocks(pk, n) ==
  {j \in 1..(n - 1) : pk[j].own /\ pk[j].dec = "Ok" /\ pk[j].frames > 0 /\ pk[j].e > 0}

RECURSIVE EnergyOf(_, _)
EnergyOf(pk, S) ==
  IF S = {} THEN 0 ELSE LET j == CHOOSE i \in S : TRUE IN pk[j].e + EnergyOf(pk, S \ {j})

\* C17: per-packet errors never escalate.  After measure on a file with a
\* malformed packet, an empty block or a packet of another track at position
\* j, before anything else ended the loop: every later gated block up to the
\* end of the loop is in the energy of the result (its bit is set), the file
\* has not failed unless no block at all passes the gate, and every malformed
\* packet and empty block printed a line.
C17_PerPacketErrorsDoNotEscalate ==
  \A w \in measured :
    LET pk == content[name(w)].packets
        n == BreakAt(pk)
    IN \A j \in 1..(n - 1) :
         PassedOver(pk[j]) =>
           /\ wpc[w] = "print" =>
                \A i \in GatedBlocks(pk, n) :
                  (measurement[w].v.energy \div BlockEnergy(i)) % 2 = 1
           /\ (wpc[w] = "done" /\ ~Reported(w)) => GatedBlocks(pk, n) = {}
           /\ GatedBlocks(pk, n) /= {} => wpc[w] = "print" \/ Reported(w)
           /\ Len(out[w]) >= Cardinality({i \in 1..(n - 1) : pk[i].own /\ PassedOver(pk[i])})

\* C17's case: measure has returned a result for a file whose first packet is
\* malformed, whose second is an empty block, and whose third is a block that
\* passes the gate.
C17_Witness ==
  \E w \in measured :
    /\ wpc[w] = "print"
    /\ Len(content[name(w)].packets) = 3
    /\ content[name(w)].packets[1].dec = "DecodeError"
    /\ content[name(w)].packets[2] = Packet(TRUE, "Ok", 0, 0)
    /\ measurement[w].v.energy = BlockEnergy(3)

\* C18: graceful degradation on partial decode.  After measure on any file:
\* it has failed exactly when no block before the end of the loop passes the
\* gate, whatever ended the loop; a result has the energy of exactly the
\* gated blocks before the end of the loop, and their loudness.
C18_GracefulDegradation ==
  \A w \in measured :
    LET pk == content[name(w)].packets
        G == GatedBlocks(pk, BreakAt(pk))
    IN /\ (wpc[w] = "print" \/ Reported(w)) <=> G /= {}
       /\ wpc[w] = "print" =>
            /\ measurement[w].some
            /\ measurement[w].v.energy = EnergyOf(pk, G)
            /\ measurement[w].v.loudness = -(EnergyOf(pk, G) \div Cardinality(G))
       /\ (BreakAt(pk) <= Len(pk) /\ G /= {}) =>
            \E j \in 1..Len(out[w]) :
              out[w][j] \in {"io error", "end of stream", "other error"}

\* C18's case: measure has returned a result for a file whose second packet
\* ends the loop with an I/O error, between two blocks that pass the gate:
\* the result has the energy of the first block alone.
C18_Witness ==
  \E w \in measured :
    /\ wpc[w] = "print"
    /\ Len(content[name(w)].packets) = 3
    /\ content[name(w)].packets[2].dec = "IoError"
    /\ content[name(w)].packets[3] = Packet(TRUE, "Ok", 2, BlockEnergy(3))
    /\ measurement[w].v.energy = BlockEnergy(1)

\* Whether the map e holds every entry of the map d, with the same value.
Extends(e, d) == \A k \in DOMAIN d : k \in DOMAIN e /\ e[k] = d[k]

\* C19: monotone persistence.  In a run the cache never loses a key; the map
\* of each completed save holds every entry of the map of the save before it,
\* and so of the map loaded at startup, with the same values; and whenever no
\* save is under way the cache file is the serialization of that map.
C19_MonotonePersistence ==
  /\ [][(data.some /\ data'.some) => DOMAIN data.v \subseteq DOMAIN data'.v]_vars
  /\ [][Extends(persisted', persisted)]_vars
  /\ [](data.some => Extends(persisted, loaded) /\ Extends(data.v, persisted))
  /\ []((data.some /\ readers = {} /\ disk.exists) => SerializationOf(disk.text, persisted))

\* C19's case: the run has ended after the periodic saves of the closures of
\* two indices and the final save, starting from a cache file with an entry
\* of its own, which is in the file after the two new ones.
C19_Witness ==
  /\ pc = "done" /\ data.some
  /\ Cardinality(savers) = 2
  /\ DOMAIN loaded /= {}
  /\ Extends(persisted, loaded) /\ Cardinality(DOMAIN persisted) = Cardinality(DOMAIN loaded) + 2
  /\ SerializationOf(disk.text, persisted)
  /\ TextOrder(disk.text)[Len(TextOrder(disk.text))] \in DOMAIN loaded

====
